---- MODULE Spec2Model ----
(***************************************************************************)
(* Model of backend/backend/main.py: the follow-graph builder              *)
(* (create_graph), the metrics engine (calculate_graph_metrics), the       *)
(* serializer (graph_to_json) and the request pipeline (get_graph_data     *)
(* with get_user_follow_info).                                             *)
(*                                                                         *)
(* Python values are modelled as follows.  A dict is a function, the empty *)
(* dict is <<>>.  A str is a sequence of character codes, '' is <<>>.  A   *)
(* list is a sequence.  None is the record None.  A float that is a ratio  *)
(* of integers is the pair <<numerator, denominator>>, kept exact (the     *)
(* rounding of IEEE doubles is not modelled).  A networkx DiGraph is the   *)
(* record [nodes, attr, succ, eattr]: nodes and succ[u] keep networkx's    *)
(* insertion order, attr and eattr are the attribute dicts.                *)
(***************************************************************************)
EXTENDS Integers, Sequences, FiniteSets, TLC

\* ---------------------------------------------------------------- bounds
\* ids of SpecBuild, SpecFilter and SpecPipeline are 1..MaxFid
MaxFid == 2
\* follow timestamps are 1..MaxTime, windows are drawn from 0..MaxTime+1
MaxTime == 2
\* number of follow records handed to create_graph (SpecBuild), edges of
\* the input graph (SpecFilter), messages of one hub reply and follows the
\* hub holds over all identities (SpecPipeline)
MaxFollows == 2
\* nodes and edges of the graphs of SpecMetrics
MaxNode == 3
MaxEdges == 4

\* ------------------------------------------------------- program constants
\* seconds between the unix epoch and the Farcaster epoch
FarcasterEpoch == 1609459200

\* pc            where the program stands
\* user_data     the identity list given to create_graph
\* follow_info   the follow records given to create_graph
\* graph         the DiGraph create_graph returned
\* start_time, end_time, user_fid_set
\*               the arguments of the last calculate_graph_metrics or
\*               graph_to_json call
\* filtered      the local filtered_graph of calculate_graph_metrics
\* graph_metrics, graph_json
\*               what the calls returned
\* user_fids, fetch_idx, fetch_log, response
\*               the request of get_graph_data: the resolved identities, the
\*               position of the loop of get_user_follow_info, what each
\*               iteration of that loop ended with, and the response
VARIABLES pc, user_data, follow_info, graph, start_time, end_time,
          user_fid_set, filtered, graph_metrics, graph_json, user_fids,
          fetch_idx, fetch_log, response

vars == <<pc, user_data, follow_info, graph, start_time, end_time,
          user_fid_set, filtered, graph_metrics, graph_json, user_fids,
          fetch_idx, fetch_log, response>>

\* ------------------------------------------------------------ Python values
None == [none |-> TRUE]
EmptyDict == <<>>
EmptyStr == <<>>

\* dict.get(k, default)
Get(d, k, default) == IF k \in DOMAIN d THEN d[k] ELSE default

\* the elements of a list
Range(s) == {s[i] : i \in DOMAIN s}

\* all lists over S of length at most n
SeqUpTo(S, n) == UNION {[1..k -> S] : k \in 0..n}

RECURSIVE SetToSortedSeq(_)
\* sorted(S) for a set of integers
SetToSortedSeq(S) ==
    IF S = {} THEN <<>>
    ELSE LET m == CHOOSE x \in S : \A y \in S : x <= y
         IN <<m>> \o SetToSortedSeq(S \ {m})

RECURSIVE SubsetsUpTo(_, _)
\* the subsets of S of at most n elements
SubsetsUpTo(S, n) ==
    IF n = 0 THEN {{}}
    ELSE LET T == SubsetsUpTo(S, n - 1) IN T \cup {X \cup {x} : X \in T, x \in S}

\* sorted(list)
sorted(s) == SetToSortedSeq(Range(s))

\* exact ratios: <<n, d>> with d > 0, in lowest terms
RECURSIVE Gcd(_, _)
Gcd(a, b) == IF b = 0 THEN a ELSE Gcd(b, a % b)

Rat(n, d) == LET g == Gcd(IF n < 0 THEN -n ELSE n, d) IN <<n \div g, d \div g>>
Zero == <<0, 1>>
One == <<1, 1>>
RatAdd(a, b) == Rat(a[1] * b[2] + b[1] * a[2], a[2] * b[2])
RatMul(a, b) == Rat(a[1] * b[1], a[2] * b[2])
\* a / b for b > 0
RatDiv(a, b) == Rat(a[1] * b[2], a[2] * b[1])

RECURSIVE SumRat(_, _)
\* sum(f[x] for x in S) of ratios
SumRat(S, f) ==
    IF S = {} THEN Zero
    ELSE LET x == CHOOSE y \in S : TRUE IN RatAdd(f[x], SumRat(S \ {x}, f))

RECURSIVE SumInt(_, _)
\* sum(f[x] for x in S) of integers
SumInt(S, f) ==
    IF S = {} THEN 0
    ELSE LET x == CHOOSE y \in S : TRUE IN f[x] + SumInt(S \ {x}, f)

\* ------------------------------------------------------------ nx.DiGraph
DiGraph == [nodes |-> <<>>, attr |-> <<>>, succ |-> <<>>, eattr |-> <<>>]

NodeSet(G) == Range(G.nodes)
EdgeSet(G) == DOMAIN G.eattr
number_of_nodes(G) == Len(G.nodes)
number_of_edges(G) == Cardinality(DOMAIN G.eattr)

\* G.add_node(n, **a): a new node is appended, an old one has its dict updated
add_node(G, n, a) ==
    IF n \in NodeSet(G)
    THEN [G EXCEPT !.attr[n] = a @@ @]
    ELSE [nodes |-> Append(G.nodes, n),
          attr  |-> (n :> a) @@ G.attr,
          succ  |-> (n :> <<>>) @@ G.succ,
          eattr |-> G.eattr]

\* add_edge leaving the attributes of an edge it finds as they are
add_edge_keeps_first(G, u, v, a) ==
    LET G1 == IF u \in NodeSet(G) THEN G ELSE add_node(G, u, EmptyDict)
        G2 == IF v \in NodeSet(G1) THEN G1 ELSE add_node(G1, v, EmptyDict)
    IN IF <<u, v>> \in DOMAIN G2.eattr
       THEN G2
       ELSE [G2 EXCEPT !.succ[u] = Append(@, v),
                       !.eattr = (<<u, v>> :> a) @@ @]

\* G.add_edge(u, v, **a): both endpoints become nodes, u first; a second
\* add_edge of the same ordered pair updates the attribute dict of the edge
add_edge(G, u, v, a) ==
    LET G1 == IF u \in NodeSet(G) THEN G ELSE add_node(G, u, EmptyDict)
        G2 == IF v \in NodeSet(G1) THEN G1 ELSE add_node(G1, v, EmptyDict)
    IN IF <<u, v>> \in DOMAIN G2.eattr
       THEN [G2 EXCEPT !.eattr[<<u, v>>] = a @@ @]
       ELSE [G2 EXCEPT !.succ[u] = Append(@, v),
                       !.eattr = (<<u, v>> :> a) @@ @]

RECURSIVE EdgesFrom(_, _, _)
\* the out-edges of u, in adjacency order, as <<u, v, d>>
EdgesFrom(G, u, vs) ==
    IF vs = <<>> THEN <<>>
    ELSE <<<<u, Head(vs), G.eattr[<<u, Head(vs)>>]>>>> \o EdgesFrom(G, u, Tail(vs))

RECURSIVE EdgesOf(_, _)
EdgesOf(G, ns) ==
    IF ns = <<>> THEN <<>>
    ELSE EdgesFrom(G, Head(ns), G.succ[Head(ns)]) \o EdgesOf(G, Tail(ns))

\* list(G.edges(data=True)): node insertion order, then adjacency order
edges(G) == EdgesOf(G, G.nodes)

RECURSIVE add_nodes_from(_, _)
\* G.add_nodes_from of a list of (n, dict)
add_nodes_from(G, nds) ==
    IF nds = <<>> THEN G
    ELSE add_nodes_from(add_node(G, Head(nds)[1], Head(nds)[2]), Tail(nds))

RECURSIVE add_edges_from(_, _)
\* G.add_edges_from of a list of (u, v, dict)
add_edges_from(G, es) ==
    IF es = <<>> THEN G
    ELSE add_edges_from(add_edge(G, Head(es)[1], Head(es)[2], Head(es)[3]), Tail(es))

\* ------------------------------------------------------------ create_graph
RECURSIVE AddUsers(_, _)
\* first loop of create_graph: one node per user_data entry
AddUsers(G, ud) ==
    IF ud = <<>> THEN G
    ELSE AddUsers(add_node(G, Head(ud).fid,
                           [username |-> Head(ud).username,
                            timestamp |-> Head(ud).timestamp,
                            avatar_url |-> Head(ud).avatar_url]),
                  Tail(ud))

\* the test of the inner loop: target_fid in [u['fid'] for u in user_data]
TargetIsSpecified(target_fid, ud) == target_fid \in {ud[i].fid : i \in DOMAIN ud}

RECURSIVE AddFollows(_, _, _, _)
\* inner loop of create_graph over user['following']
AddFollows(G, fid, following, ud) ==
    IF following = <<>> THEN G
    ELSE LET follow == Head(following)
             G1 == IF TargetIsSpecified(follow.targetFid, ud)
                   THEN add_edge(G, fid, follow.targetFid,
                                 [timestamp |-> follow.timestamp])
                   ELSE G
         IN AddFollows(G1, fid, Tail(following), ud)

RECURSIVE AddFollowInfo(_, _, _)
\* outer loop of create_graph over follow_info
AddFollowInfo(G, fi, ud) ==
    IF fi = <<>> THEN G
    ELSE AddFollowInfo(AddFollows(G, Head(fi).fid, Head(fi).following, ud),
                       Tail(fi), ud)

create_graph(fi, ud) == AddFollowInfo(AddUsers(DiGraph, ud), fi, ud)

\* ------------------------------------------------- networkx algorithms
\* Succ with the edges followed backwards
SuccReversed(G, u) == {v \in Range(G.nodes) : <<v, u>> \in DOMAIN G.eattr}

\* G.successors(u), G.predecessors(v)
Succ(G, u) == Range(G.succ[u])
Pred(G, v) == {u \in NodeSet(G) : <<u, v>> \in EdgeSet(G)}

RECURSIVE BfsLevels(_, _, _, _)
\* the level-by-level breadth first search of _single_shortest_path_length
BfsLevels(G, seen, thislevel, level) ==
    IF thislevel = {} THEN seen
    ELSE LET found == (UNION {Succ(G, u) : u \in thislevel}) \ DOMAIN seen
         IN BfsLevels(G, [n \in found |-> level + 1] @@ seen, found, level + 1)

\* nx.single_source_shortest_path_length(G, source): dict target -> hops
single_source_shortest_path_length(G, source) ==
    BfsLevels(G, (source :> 0), {source}, 0)

\* dict(nx.all_pairs_shortest_path_length(G))
all_pairs_shortest_path_length(G) ==
    [s \in NodeSet(G) |-> single_source_shortest_path_length(G, s)]

\* nx.density(G) of a DiGraph
density(G) ==
    LET n == number_of_nodes(G)
        m == number_of_edges(G)
    IN IF m = 0 \/ n <= 1 THEN Zero ELSE Rat(m, n * (n - 1))

\* to_undirected keeping the successors only
to_undirected_successors(G) == [v \in NodeSet(G) |-> Succ(G, v)]

\* G.to_undirected(): the neighbours of each node
to_undirected(G) == [v \in NodeSet(G) |-> Succ(G, v) \cup Pred(G, v)]

\* nx.clustering(UG) of an unweighted undirected graph
\* (_triangles_and_degree_iter: self loops are left out)
clustering(UG) ==
    [v \in DOMAIN UG |->
        LET vs == UG[v] \ {v}
            ntriangles == SumInt(vs, [w \in vs |-> Cardinality(vs \cap (UG[w] \ {w}))])
            d == Cardinality(vs)
        IN IF ntriangles = 0 THEN Zero ELSE Rat(ntriangles, d * (d - 1))]

\* nx.average_clustering(UG): sum(c) / len(c)
average_clustering(UG) ==
    LET c == clustering(UG)
    IN RatDiv(SumRat(DOMAIN c, c), <<Cardinality(DOMAIN c), 1>>)

\* degree taken on the undirected projection
degree_undirected(G) ==
    [v \in NodeSet(G) |->
        Cardinality((Succ(G, v) \cup Pred(G, v)) \ {v})
        + (IF <<v, v>> \in EdgeSet(G) THEN 2 ELSE 0)]

\* dict(G.in_degree()), dict(G.out_degree()), dict(G.degree()) of a DiGraph
in_degree(G) == [v \in NodeSet(G) |-> Cardinality(Pred(G, v))]
out_degree(G) == [v \in NodeSet(G) |-> Cardinality(Succ(G, v))]
degree(G) == [v \in NodeSet(G) |-> in_degree(G)[v] + out_degree(G)[v]]

\* Brandes' algorithm for one source s: the dependency delta_s of every node
\* (_single_source_shortest_path_basic followed by _accumulate_basic)
BrandesDelta(G, s) ==
    LET D == single_source_shortest_path_length(G, s)
        P == [w \in DOMAIN D |-> {v \in Pred(G, w) \cap DOMAIN D : D[v] + 1 = D[w]}]
        sigma[w \in DOMAIN D] ==
            IF w = s THEN 1 ELSE SumInt(P[w], [v \in P[w] |-> sigma[v]])
        delta[v \in DOMAIN D] ==
            LET ws == {w \in DOMAIN D : v \in P[w]}
            IN SumRat(ws, [w \in ws |->
                   RatMul(Rat(sigma[v], sigma[w]), RatAdd(One, delta[w]))])
    IN [v \in NodeSet(G) |-> IF v \in DOMAIN D /\ v # s THEN delta[v] ELSE Zero]

\* RescaleNormalized for normalized=False
RescaleUnnormalized(n) == One

\* _rescale(betweenness, n, normalized, directed=True): the factor
RescaleNormalized(n) == IF n <= 2 THEN One ELSE Rat(1, (n - 1) * (n - 2))

\* nx.betweenness_centrality(G): k=None, normalized=True, endpoints=False
betweenness_centrality(G) ==
    LET scale == RescaleNormalized(number_of_nodes(G))
        delta == [s \in NodeSet(G) |-> BrandesDelta(G, s)]
    IN [v \in NodeSet(G) |->
           RatMul(SumRat(NodeSet(G), [s \in NodeSet(G) |-> delta[s][v]]), scale)]

\* nx.to_numpy_array(G, nodelist): 1.0 where an edge, 0.0 elsewhere
to_numpy_array(G, nodelist) ==
    [i \in DOMAIN nodelist |-> [j \in DOMAIN nodelist |->
        IF <<nodelist[i], nodelist[j]>> \in EdgeSet(G) THEN 1 ELSE 0]]

\* -------------------------------------------------- calculate_graph_metrics
\* cells of a numpy matrix: a number, np.inf, or (dtype object) None
Num(d) == [val |-> d]
Inf == [inf |-> TRUE]
isinf(c) == c = Inf

\* EdgeKept with the lower bound of the window excluded
EdgeKeptStrict(e, start, end, fids) ==
    /\ start < e[3].timestamp /\ e[3].timestamp <= end
    /\ e[1] \in fids /\ e[2] \in fids

\* the comprehension of lines 150-153
EdgeKept(e, start, end, fids) ==
    /\ start <= e[3].timestamp /\ e[3].timestamp <= end
    /\ e[1] \in fids /\ e[2] \in fids

filtered_edges(G, start, end, fids) ==
    SelectSeq(edges(G), LAMBDA e : EdgeKept(e, start, end, fids))

\* the generator of line 157
NodeKept(n, fids) == n \in fids

RECURSIVE NodesWithData(_, _, _)
NodesWithData(G, ns, fids) ==
    IF ns = <<>> THEN <<>>
    ELSE (IF NodeKept(Head(ns), fids) THEN <<<<Head(ns), G.attr[Head(ns)]>>>> ELSE <<>>)
         \o NodesWithData(G, Tail(ns), fids)

\* lines 156-158
filtered_graph(G, start, end, fids) ==
    add_edges_from(add_nodes_from(DiGraph, NodesWithData(G, G.nodes, fids)),
                   filtered_edges(G, start, end, fids))

\* lines 164-172: np.array([]).tolist() is []
EmptyMetrics ==
    [num_nodes |-> 0, num_edges |-> 0, density |-> Zero, avg_clustering |-> Zero,
     adjacency_matrix |-> <<>>, shortest_path_matrix |-> <<>>,
     node_metrics |-> EmptyDict]

\* lines 181-193
ShortestPathMatrix(FG, node_list) ==
    LET lengths == all_pairs_shortest_path_length(FG)
        filled == [i \in DOMAIN node_list |-> [j \in DOMAIN node_list |->
            IF node_list[j] \in DOMAIN lengths[node_list[i]]
            THEN Num(lengths[node_list[i]][node_list[j]]) ELSE Inf]]
    IN [i \in DOMAIN node_list |-> [j \in DOMAIN node_list |->
            IF isinf(filled[i][j]) THEN None ELSE filled[i][j]]]

\* lines 204-221
NodeMetrics(FG, node_list) ==
    LET node_clustering == clustering(to_undirected(FG))
        degrees == degree(FG)
        in_degrees == in_degree(FG)
        out_degrees == out_degree(FG)
        betweenness == betweenness_centrality(FG)
    IN [node \in Range(node_list) |->
           [degree |-> Get(degrees, node, 0),
            in_degree |-> Get(in_degrees, node, 0),
            out_degree |-> Get(out_degrees, node, 0),
            clustering_coefficient |-> Get(node_clustering, node, Zero),
            betweenness_centrality |-> Get(betweenness, node, Zero)]]

\* IsEmptyGraph without the test of the edge count
IsEmptyGraphNodesOnly(FG) == number_of_nodes(FG) = 0

\* the test of line 162
IsEmptyGraph(FG) == number_of_nodes(FG) = 0 \/ number_of_edges(FG) = 0

\* lines 160-231: the result, given the filtered graph
MetricsOf(FG) ==
    LET node_list == sorted(FG.nodes)
    IN IF IsEmptyGraph(FG)
       THEN EmptyMetrics
       ELSE [num_nodes |-> number_of_nodes(FG),
             num_edges |-> number_of_edges(FG),
             density |-> density(FG),
             avg_clustering |-> average_clustering(to_undirected(FG)),
             adjacency_matrix |-> to_numpy_array(FG, node_list),
             shortest_path_matrix |-> ShortestPathMatrix(FG, node_list),
             node_metrics |-> NodeMetrics(FG, node_list)]

calculate_graph_metrics(G, start, end, fids) ==
    MetricsOf(filtered_graph(G, start, end, fids))

\* ------------------------------------------------------------ graph_to_json
RECURSIVE JsonNodes(_, _, _)
\* the comprehension of lines 234-241
JsonNodes(G, ns, fids) ==
    IF ns = <<>> THEN <<>>
    ELSE (IF Head(ns) \in fids
          THEN <<[id |-> Head(ns),
                  username |-> Get(G.attr[Head(ns)], "username", EmptyStr),
                  timestamp |-> Get(G.attr[Head(ns)], "timestamp", None),
                  avatar_url |-> Get(G.attr[Head(ns)], "avatar_url", None)]>>
          ELSE <<>>) \o JsonNodes(G, Tail(ns), fids)

\* LinkKept testing the source only
LinkKeptSourceOnly(e, fids) == e[1] \in fids

\* the test of line 248
LinkKept(e, fids) == e[1] \in fids /\ e[2] \in fids

RECURSIVE JsonLinks(_, _)
\* the comprehension of lines 243-249
JsonLinks(es, fids) ==
    IF es = <<>> THEN <<>>
    ELSE (IF LinkKept(Head(es), fids)
          THEN <<[source |-> Head(es)[1], target |-> Head(es)[2],
                  timestamp |-> Head(es)[3].timestamp]>>
          ELSE <<>>) \o JsonLinks(Tail(es), fids)

graph_to_json(G, fids) ==
    [nodes |-> JsonNodes(G, G.nodes, fids), links |-> JsonLinks(edges(G), fids)]

\* ------------------------------------------------------------ input spaces
Fids == 1..MaxFid
Times == 1..MaxTime

\* the user_data entry of the identity with id f: its handle is the one
\* character string <<f>>, it has no avatar and registered at time 1
UserRecord(f) == [username |-> <<f>>, fid |-> f, avatar_url |-> None, timestamp |-> 1]

\* user_data lists: identities with unique ids, in ascending id order
UserDataOf(S) == LET ns == SetToSortedSeq(S) IN [i \in DOMAIN ns |-> UserRecord(ns[i])]

RECURSIVE PairsToSeq(_)
\* a set of ordered pairs as a list in lexicographic order
PairsToSeq(E) ==
    IF E = {} THEN <<>>
    ELSE LET m == CHOOSE p \in E : \A q \in E :
                      p[1] < q[1] \/ (p[1] = q[1] /\ p[2] <= q[2])
         IN <<m>> \o PairsToSeq(E \ {m})

\* the DiGraph with node set S (each node carrying the attributes of its
\* identity), edge set E and follow times ts, built in ascending order
InputGraph(S, E, ts) ==
    LET ns == SetToSortedSeq(S)
        es == PairsToSeq(E)
    IN add_edges_from(
           add_nodes_from(DiGraph,
               [i \in DOMAIN ns |->
                   <<ns[i], [username |-> <<ns[i]>>, timestamp |-> 1, avatar_url |-> None]>>]),
           [i \in DOMAIN es |-> <<es[i][1], es[i][2], [timestamp |-> ts[es[i]]]>>])

\* ------------------------------------------------------------ actions
\* graph = create_graph(follow_info, user_data)
CreateGraph ==
    /\ pc = "inputs"
    /\ graph' = create_graph(follow_info, user_data)
    /\ pc' = "built"
    /\ UNCHANGED <<user_data, follow_info, start_time, end_time, user_fid_set,
                   filtered, graph_metrics, graph_json, user_fids, fetch_idx,
                   fetch_log, response>>

\* graph_metrics = calculate_graph_metrics(graph, start, end, fids)
CalculateMetrics(start, end, fids) ==
    /\ pc = "built"
    /\ start_time' = start
    /\ end_time' = end
    /\ user_fid_set' = fids
    /\ LET FG == filtered_graph(graph, start, end, fids)
       IN /\ filtered' = FG
          /\ graph_metrics' = MetricsOf(FG)
    /\ pc' = "measured"
    /\ UNCHANGED <<user_data, follow_info, graph, graph_json, user_fids,
                   fetch_idx, fetch_log, response>>

\* graph_json = graph_to_json(graph, fids)
GraphToJson(fids) ==
    /\ pc = "built"
    /\ user_fid_set' = fids
    /\ graph_json' = graph_to_json(graph, fids)
    /\ pc' = "serialized"
    /\ UNCHANGED <<user_data, follow_info, graph, start_time, end_time,
                   filtered, graph_metrics, user_fids, fetch_idx, fetch_log, response>>

\* the variables of the request pipeline, where a specification calls the
\* functions directly
NoRequest ==
    /\ user_fids = <<>> /\ fetch_idx = 0 /\ fetch_log = <<>> /\ response = <<>>

\* no call of calculate_graph_metrics or graph_to_json was made yet
NoCall ==
    /\ start_time = 0 /\ end_time = 0 /\ user_fid_set = {}
    /\ filtered = DiGraph /\ graph_metrics = <<>> /\ graph_json = <<>>

\* ------------------------------------------------------------ SpecMetrics
\* calculate_graph_metrics on every graph of at most MaxNode nodes and
\* MaxEdges edges (self loops included); every edge lies in the window and
\* every node is known, so that the filtered graph is the graph itself.
InitMetrics ==
    /\ pc = "built"
    /\ \E n \in 1..MaxNode :
         \E E \in SubsetsUpTo((1..n) \X (1..n), MaxEdges) :
            graph = InputGraph(1..n, E, [p \in E |-> 1])
    /\ NoCall
    /\ user_data = <<>> /\ follow_info = <<>>
    /\ NoRequest

NextMetrics == CalculateMetrics(1, MaxTime, 1..MaxNode)

SpecMetrics == InitMetrics /\ [][NextMetrics]_vars

\* ------------------------------------------------------------ SpecFilter
\* calculate_graph_metrics and graph_to_json on every graph over the ids
\* Fids with at most MaxFollows edges, every window over Times (start > end
\* included) and every set of known ids.
InitFilter ==
    /\ pc = "built"
    /\ \E S \in SUBSET Fids :
         \E E \in SubsetsUpTo(S \X S, MaxFollows) :
            \E ts \in [E -> Times] : graph = InputGraph(S, E, ts)
    /\ NoCall
    /\ user_data = <<>> /\ follow_info = <<>>
    /\ NoRequest

NextFilter ==
    \/ \E start \in Times, end \in Times, fids \in SUBSET Fids :
          CalculateMetrics(start, end, fids)
    \/ \E fids \in SUBSET Fids : GraphToJson(fids)

SpecFilter == InitFilter /\ [][NextFilter]_vars

\* ------------------------------------------------------------ SpecBuild
\* one entry of follow_info per run of records with the same source
RECURSIVE GroupBySource(_)
GroupBySource(flat) ==
    IF flat = <<>> THEN <<>>
    ELSE LET rest == GroupBySource(Tail(flat))
             f == [timestamp |-> Head(flat)[3], targetFid |-> Head(flat)[2]]
         IN IF rest # <<>> /\ rest[1].fid = Head(flat)[1]
            THEN <<[rest[1] EXCEPT !.following = <<f>> \o @]>> \o Tail(rest)
            ELSE <<[username |-> <<Head(flat)[1]>>, fid |-> Head(flat)[1],
                    following |-> <<f>>]>> \o rest

\* create_graph on the identities 1..n, with n = MaxFid (every id known) or
\* n = MaxFid - 1 (one id outside the identity set, as a source and as a
\* target), and every list of at most MaxFollows follow records (source,
\* target, time) over Fids and Times; then
\* calculate_graph_metrics with the identities as the known ids and every
\* window over Times with start <= end.
InitBuild ==
    /\ pc = "inputs"
    /\ \E n \in {MaxFid - 1, MaxFid} : user_data = UserDataOf(1..n)
    /\ \E flat \in SeqUpTo(Fids \X Fids \X Times, MaxFollows) :
         follow_info = GroupBySource(flat)
    /\ graph = DiGraph
    /\ NoCall
    /\ NoRequest

NextBuild ==
    \/ CreateGraph
    \/ \E start \in Times, end \in Times :
          /\ start <= end
          /\ CalculateMetrics(start, end, {user_data[i].fid : i \in DOMAIN user_data})

SpecBuild == InitBuild /\ [][NextBuild]_vars

\* ------------------------------------------------------------ get_graph_data
\* messages of a linksByFid reply: a follow of f, a message of another
\* type, and a link-add message without its linkBody
FollowMessage(f) ==
    [type |-> "MESSAGE_TYPE_LINK_ADD", timestamp |-> 1,
     linkBody |-> [type |-> "follow", targetFid |-> f]]
RemoveMessage ==
    [type |-> "MESSAGE_TYPE_LINK_REMOVE", timestamp |-> 1,
     linkBody |-> [type |-> "follow", targetFid |-> 1]]
BrokenMessage == [type |-> "MESSAGE_TYPE_LINK_ADD", timestamp |-> 1]
Messages == {FollowMessage(f) : f \in Fids} \cup {RemoveMessage, BrokenMessage}

RECURSIVE ReadMessages(_, _)
\* the loop of lines 103-111 over data['messages']: the 'following' list
\* read so far, and whether a message raised (a missing key is a KeyError)
ReadMessages(msgs, following) ==
    IF msgs = <<>> THEN [raised |-> FALSE, following |-> following]
    ELSE LET data == Head(msgs)
         IN IF data.type = "MESSAGE_TYPE_LINK_ADD"
            THEN IF "linkBody" \notin DOMAIN data
                 THEN [raised |-> TRUE, following |-> following]
                 ELSE IF data.linkBody.type = "follow"
                      THEN ReadMessages(Tail(msgs),
                               Append(following,
                                   [timestamp |-> data.timestamp + FarcasterEpoch,
                                    targetFid |-> data.linkBody.targetFid]))
                      ELSE ReadMessages(Tail(msgs), following)
            ELSE ReadMessages(Tail(msgs), following)

\* FollowInfoAfter with the entry appended before its messages are read
FollowInfoAfterKeepsPartial(list, username, fid, read) ==
    Append(list, [username |-> username, fid |-> fid, following |-> read.following])

\* follow_info_list after one iteration of the loop of get_user_follow_info:
\* the append of line 112 is reached only when no message raised
FollowInfoAfter(list, username, fid, read) ==
    IF read.raised THEN list
    ELSE Append(list, [username |-> username, fid |-> fid, following |-> read.following])

\* the except clauses of lines 113-119 catch every Exception
CaughtInLoop(exc) == exc \in {"HTTPStatusError", "RequestError", "Exception"}

\* lines 314-316
ErrorResponse(exc) == [error |-> exc]

\* get_user_data returned: one user_data entry per identity
GetUserData ==
    /\ pc = "request"
    /\ user_data' = [i \in DOMAIN user_fids |->
                        [username |-> user_fids[i].username, fid |-> user_fids[i].fid,
                         avatar_url |-> None, timestamp |-> user_fids[i].timestamp]]
    /\ fetch_idx' = 1
    /\ pc' = "fetching"
    /\ UNCHANGED <<follow_info, graph, start_time, end_time, user_fid_set, filtered,
                   graph_metrics, graph_json, user_fids, fetch_log, response>>

\* get_user_data raised (client.get outside any try): the except of
\* get_graph_data answers with an error
GetUserDataRaises ==
    /\ pc = "request"
    /\ response' = ErrorResponse("RequestError")
    /\ pc' = "done"
    /\ UNCHANGED <<user_data, follow_info, graph, start_time, end_time, user_fid_set,
                   filtered, graph_metrics, graph_json, user_fids, fetch_idx, fetch_log>>

\* one iteration of the loop of get_user_follow_info ends with exception exc
\* ("" for none) after reading 'read' of a reply holding that many follows
FetchEnds(exc, follows, read) ==
    /\ pc = "fetching"
    /\ fetch_idx <= Len(user_fids)
    /\ fetch_log' = Append(fetch_log, [fid |-> user_fids[fetch_idx].fid, raised |-> exc,
                                       follows |-> follows,
                                       read |-> Len(read.following)])
    /\ IF exc = "" \/ CaughtInLoop(exc)
       THEN /\ follow_info' = FollowInfoAfter(follow_info, user_fids[fetch_idx].username,
                                              user_fids[fetch_idx].fid, read)
            /\ fetch_idx' = fetch_idx + 1
            /\ UNCHANGED <<pc, response>>
       ELSE /\ response' = ErrorResponse(exc)
            /\ pc' = "done"
            /\ UNCHANGED <<follow_info, fetch_idx>>
    /\ UNCHANGED <<user_data, graph, start_time, end_time, user_fid_set, filtered,
                   graph_metrics, graph_json, user_fids>>

\* the follow messages of a reply, and those of the replies so far
Follows(msgs) == Cardinality({i \in DOMAIN msgs : msgs[i] \in {FollowMessage(f) : f \in Fids}})
FollowsSent == SumInt(DOMAIN fetch_log, [i \in DOMAIN fetch_log |-> fetch_log[i].follows])

\* the hub answered 200 with msgs: they are read, a broken one raises
FetchReply ==
    \E msgs \in SeqUpTo(Messages, MaxFollows) :
        /\ Follows(msgs) <= MaxFollows - FollowsSent
        /\ LET read == ReadMessages(msgs, <<>>)
           IN FetchEnds(IF read.raised THEN "Exception" ELSE "", Follows(msgs), read)

\* raise_for_status raised on a 4xx or 5xx answer
FetchHTTPStatusError ==
    FetchEnds("HTTPStatusError", 0, [raised |-> TRUE, following |-> <<>>])

\* client.get raised (timeout, connection)
FetchRequestError ==
    FetchEnds("RequestError", 0, [raised |-> TRUE, following |-> <<>>])

\* lines 285-291
AllTimestamps(G, fids) ==
    LET es == SelectSeq(edges(G), LAMBDA e : e[1] \in fids /\ e[2] \in fids)
        ns == SelectSeq(G.nodes, LAMBDA n : n \in fids)
    IN [i \in DOMAIN es |-> es[i][3].timestamp] \o [i \in DOMAIN ns |-> G.attr[ns[i]].timestamp]
Min(ts) == IF ts = <<>> THEN 0 ELSE CHOOSE x \in Range(ts) : \A y \in Range(ts) : x <= y
Max(ts) == IF ts = <<>> THEN 0 ELSE CHOOSE x \in Range(ts) : \A y \in Range(ts) : x >= y

\* lines 281-313, once get_user_follow_info returned
Respond ==
    /\ pc = "fetching"
    /\ fetch_idx > Len(user_fids)
    /\ LET fids == {user_fids[i].fid : i \in DOMAIN user_fids}
           G == create_graph(follow_info, user_data)
           all_timestamps == AllTimestamps(G, fids)
           start == Min(all_timestamps)
           end == Max(all_timestamps)
           FG == filtered_graph(G, start, end, fids)
           metrics == MetricsOf(FG)
           json == graph_to_json(G, fids)
       IN /\ graph' = G
          /\ user_fid_set' = fids
          /\ start_time' = start
          /\ end_time' = end
          /\ filtered' = FG
          /\ graph_metrics' = metrics
          /\ graph_json' = json
          /\ response' = [graph_metrics |-> metrics, graph_structure |-> json,
                          timestamps |-> all_timestamps,
                          start_time |-> start, end_time |-> end]
    /\ pc' = "done"
    /\ UNCHANGED <<user_data, follow_info, user_fids, fetch_idx, fetch_log>>

\* ------------------------------------------------------------ SpecPipeline
\* one request of get_graph_data once get_user_fids resolved the identities
\* S, any subset of Fids: get_user_data, then one hub fetch per identity,
\* each ending in a reply of at most MaxFollows messages or in an error,
\* the hub holding at most MaxFollows follows over all identities, then the
\* graph, the metrics and the response.
InitPipeline ==
    /\ pc = "request"
    /\ \E S \in SUBSET Fids :
         LET ns == SetToSortedSeq(S)
         IN user_fids = [i \in DOMAIN ns |->
                            [username |-> <<ns[i]>>, fid |-> ns[i], timestamp |-> 1]]
    /\ user_data = <<>> /\ follow_info = <<>>
    /\ graph = DiGraph
    /\ NoCall
    /\ fetch_idx = 0 /\ fetch_log = <<>> /\ response = <<>>

NextPipeline ==
    \/ GetUserData
    \/ GetUserDataRaises
    \/ FetchReply
    \/ FetchHTTPStatusError
    \/ FetchRequestError
    \/ Respond

SpecPipeline == InitPipeline /\ [][NextPipeline]_vars

\* ---------------------------------------------- what the claims speak of
\* the nodes and edges that the window [start_time, end_time] and the known
\* ids user_fid_set retain of graph, stated on the sets of the input graph
KeptNodes == NodeSet(graph) \cap user_fid_set
KeptEdges ==
    {e \in EdgeSet(graph) :
        /\ start_time <= graph.eattr[e].timestamp
        /\ graph.eattr[e].timestamp <= end_time
        /\ e[1] \in user_fid_set /\ e[2] \in user_fid_set}
KeptList == SetToSortedSeq(KeptNodes)

\* the directed walks of k edges over the edges E on the nodes N, for
\* every k a path can have
RECURSIVE WalksOfLength(_, _, _)
WalksOfLength(N, E, k) ==
    IF k = 0 THEN {<<n>> : n \in N}
    ELSE {Append(pe[1], pe[2][2]) :
             pe \in {qe \in WalksOfLength(N, E, k - 1) \X E : qe[1][k] = qe[2][1]}}
WalkTable(N, E) == [k \in 0..(Cardinality(N) - 1) |-> WalksOfLength(N, E, k)]
WalksBetween(W, s, t, k) == {p \in W[k] : p[1] = s /\ p[k + 1] = t}
\* Hops(N, W)[s][t]: the hop count of a shortest directed path from s to
\* t, -1 when no directed path leads from s to t
Hops(N, W) ==
    [s \in N |-> [t \in N |->
        LET ks == {k \in DOMAIN W : WalksBetween(W, s, t, k) # {}}
        IN IF ks = {} THEN -1 ELSE CHOOSE k \in ks : \A j \in ks : k <= j]]
KeptHops == Hops(KeptNodes, WalkTable(KeptNodes, KeptEdges))

\* sum over ordered pairs (s, t), s, t, v pairwise distinct, of the share of
\* the shortest directed s-t paths that pass through v
PairDependencySum(N, W, H, v) ==
    LET pairs == {st \in N \X N :
                     st[1] # st[2] /\ st[1] # v /\ st[2] # v /\ H[st[1]][st[2]] >= 0}
    IN SumRat(pairs, [st \in pairs |->
           LET sp == WalksBetween(W, st[1], st[2], H[st[1]][st[2]])
           IN Rat(Cardinality({p \in sp : \E i \in DOMAIN p : p[i] = v}),
                  Cardinality(sp))])
\* PairDependencySum of every retained node
KeptDependency ==
    LET N == KeptNodes
        W == WalkTable(N, KeptEdges)
        H == Hops(N, W)
    IN [v \in N |-> PairDependencySum(N, W, H, v)]

\* the ids of the identity list
Identities == {user_data[i].fid : i \in DOMAIN user_data}

RECURSIVE FlatFollows(_)
\* the follow records in the order create_graph reads them: follow_info in
\* list order, then each 'following' in list order
FlatFollows(fi) ==
    IF fi = <<>> THEN <<>>
    ELSE [i \in DOMAIN Head(fi).following |->
             [source |-> Head(fi).fid,
              target |-> Head(fi).following[i].targetFid,
              timestamp |-> Head(fi).following[i].timestamp]]
         \o FlatFollows(Tail(fi))

\* how many entries of a list satisfy a test
Count(lst, Test(_)) == Cardinality({i \in DOMAIN lst : Test(lst[i])})

\* C1: every edge of the graph create_graph returns has its source and its
\* target in the identity set, and every node of it is an identity.
C1_EndpointsAreIdentities ==
    pc # "inputs" =>
        /\ \A e \in EdgeSet(graph) : e[1] \in Identities /\ e[2] \in Identities
        /\ NodeSet(graph) \subseteq Identities

\* C2: the filtered graph holds exactly the edges of the input graph whose
\* timestamp lies in [start, end], bounds included, and whose endpoints are
\* both known, and exactly the known nodes of the input graph, isolated ones
\* included, each once; when an edge is retained num_nodes, the keys of
\* node_metrics and num_edges are those of that node set and edge set.
C2_FilteredGraphIsExact ==
    pc = "measured" =>
        /\ EdgeSet(filtered) = KeptEdges
        /\ NodeSet(filtered) = KeptNodes
        /\ Len(filtered.nodes) = Cardinality(KeptNodes)
        /\ Len(edges(filtered)) = Cardinality(KeptEdges)
        /\ KeptEdges # {} =>
              /\ graph_metrics.num_nodes = Cardinality(KeptNodes)
              /\ DOMAIN graph_metrics.node_metrics = KeptNodes
              /\ graph_metrics.num_edges = Cardinality(KeptEdges)

\* a call that keeps an edge whose timestamp is both bounds of the window,
\* drops an edge for its time and leaves a known node without any edge
C2_Witness ==
    /\ pc = "measured"
    /\ start_time = end_time
    /\ KeptEdges # {}
    /\ \E e \in EdgeSet(graph) \ KeptEdges : e[1] \in user_fid_set /\ e[2] \in user_fid_set
    /\ \E n \in KeptNodes : \A e \in KeptEdges : e[1] # n /\ e[2] # n
    /\ graph_metrics.num_nodes = Cardinality(KeptNodes)

\* C3: when the filtered graph has no node or no edge the call returns the
\* canonical empty result: num_nodes, num_edges, density and avg_clustering
\* 0, both matrices empty, node_metrics an empty mapping.
C3_EmptyResult ==
    (pc = "measured" /\ (KeptNodes = {} \/ KeptEdges = {})) =>
        /\ graph_metrics.num_nodes = 0
        /\ graph_metrics.num_edges = 0
        /\ graph_metrics.density = Zero
        /\ graph_metrics.avg_clustering = Zero
        /\ graph_metrics.adjacency_matrix = <<>>
        /\ graph_metrics.shortest_path_matrix = <<>>
        /\ DOMAIN graph_metrics.node_metrics = {}

\* a call with start > end on a graph whose nodes are known and joined by
\* an edge: nodes are retained, no edge is, the result is the empty one
C3_Witness ==
    /\ pc = "measured"
    /\ start_time > end_time
    /\ KeptNodes # {}
    /\ \E e \in EdgeSet(graph) : e[1] \in user_fid_set /\ e[2] \in user_fid_set
    /\ graph_metrics.num_nodes = 0
    /\ graph_metrics.node_metrics = EmptyDict

\* the node and link records of graph_json are those of graph and
\* user_fid_set: one node record for each known node of the graph and no
\* other, one link record (source, target, timestamp) for each edge with
\* both endpoints known and no other
JsonIsExact ==
    /\ \A n \in NodeSet(graph) \cap user_fid_set :
         Count(graph_json.nodes, LAMBDA r : r.id = n) = 1
    /\ \A i \in DOMAIN graph_json.nodes :
         graph_json.nodes[i].id \in NodeSet(graph) \cap user_fid_set
    /\ \A e \in EdgeSet(graph) :
         (e[1] \in user_fid_set /\ e[2] \in user_fid_set) =>
            /\ Count(graph_json.links, LAMBDA r : r.source = e[1] /\ r.target = e[2]) = 1
            /\ \A i \in DOMAIN graph_json.links :
                 (graph_json.links[i].source = e[1] /\ graph_json.links[i].target = e[2])
                     => graph_json.links[i].timestamp = graph.eattr[e].timestamp
    /\ \A i \in DOMAIN graph_json.links :
         /\ <<graph_json.links[i].source, graph_json.links[i].target>> \in EdgeSet(graph)
         /\ graph_json.links[i].source \in user_fid_set
         /\ graph_json.links[i].target \in user_fid_set

\* C8: graph_to_json(G, K) returns exactly one node record for each node of
\* G in K and no other, exactly one link record for each edge of G with both
\* endpoints in K and no other, and leaves G unchanged.
C8_JsonIsExact ==
    [][pc' = "serialized" => (graph' = graph /\ JsonIsExact')]_vars

\* a serialization that leaves out a node and an edge of the graph and
\* emits a node and a link
C8_Witness ==
    /\ pc = "serialized"
    /\ NodeSet(graph) \ user_fid_set # {}
    /\ \E e \in EdgeSet(graph) : e[1] \notin user_fid_set \/ e[2] \notin user_fid_set
    /\ Len(graph_json.nodes) > 0
    /\ Len(graph_json.links) > 0

\* the timestamp of the last record of follow_info for the pair (u, v)
LastTimestamp(recs, u, v) ==
    LET is == {i \in DOMAIN recs : recs[i].source = u /\ recs[i].target = v}
    IN recs[CHOOSE i \in is : \A j \in is : j <= i].timestamp
HasRecord(recs, u, v) ==
    \E i \in DOMAIN recs : recs[i].source = u /\ recs[i].target = v

\* C10: for every ordered pair of known ids that follow_info has records
\* for, the built graph holds exactly one edge, carrying the timestamp of
\* the last of these records in processing order; calculate_graph_metrics
\* retains the pair exactly when that last timestamp lies in the window.
C10_LastRecordWins ==
    pc # "inputs" =>
        LET recs == FlatFollows(follow_info)
            built == edges(graph)
            kept == IF pc = "measured" THEN EdgeSet(filtered) ELSE {}
        IN \A u \in Identities, v \in Identities :
              HasRecord(recs, u, v) =>
                  LET last == LastTimestamp(recs, u, v)
                  IN /\ Count(built, LAMBDA e : e[1] = u /\ e[2] = v) = 1
                     /\ graph.eattr[<<u, v>>].timestamp = last
                     /\ pc = "measured" =>
                           (<<u, v>> \in kept
                               <=> (start_time <= last /\ last <= end_time))

\* two records for one known pair, the earlier one inside the window and
\* the last one outside: the pair is not retained
C10_Witness ==
    /\ pc = "measured"
    /\ LET recs == FlatFollows(follow_info)
       IN \E i, j \in DOMAIN recs :
         LET r == recs[i]
             q == recs[j]
         IN /\ i < j
            /\ r.source = q.source /\ r.target = q.target
            /\ r.source \in Identities /\ r.target \in Identities
            /\ start_time <= r.timestamp /\ r.timestamp <= end_time
            /\ q.timestamp > end_time
            /\ LastTimestamp(recs, q.source, q.target) = q.timestamp
            /\ <<q.source, q.target>> \notin EdgeSet(filtered)

\* the fetches that failed so far
FailedFetches == {i \in DOMAIN fetch_log : fetch_log[i].raised # ""}

\* C9: when the edge fetch of an identity fails (HTTP error, request error,
\* exception while its messages are read) the request goes on; the response
\* is no error response, every identity had its fetch, in order, the failing
\* identity has no outgoing edge in the built graph and its node is there.
C9_FetchFailureIsContained ==
    FailedFetches # {} =>
        /\ pc \in {"fetching", "done"}
        /\ "error" \notin DOMAIN response
        /\ fetch_idx = Len(fetch_log) + 1
        /\ \A i \in DOMAIN fetch_log : fetch_log[i].fid = user_fids[i].fid
        /\ \A i \in FailedFetches :
             \A j \in DOMAIN follow_info : follow_info[j].fid # fetch_log[i].fid
        /\ pc = "done" =>
              /\ Len(fetch_log) = Len(user_fids)
              /\ "graph_structure" \in DOMAIN response
              /\ \A i \in FailedFetches :
                   /\ fetch_log[i].fid \in NodeSet(graph)
                   /\ \A e \in EdgeSet(graph) : e[1] # fetch_log[i].fid
                   /\ \E k \in DOMAIN response.graph_structure.nodes :
                        response.graph_structure.nodes[k].id = fetch_log[i].fid
                   /\ \A k \in DOMAIN response.graph_structure.links :
                        response.graph_structure.links[k].source # fetch_log[i].fid

\* a request answered after a fetch that raised while reading, a follow
\* already read, and a later fetch that gave an edge
C9_Witness ==
    /\ pc = "done"
    /\ \E i, j \in DOMAIN fetch_log :
         /\ i < j
         /\ fetch_log[i].raised = "Exception" /\ fetch_log[i].read > 0
         /\ fetch_log[j].raised = ""
         /\ \E e \in EdgeSet(graph) : e[1] = fetch_log[j].fid
    /\ "graph_metrics" \in DOMAIN response

Measured == pc = "measured" /\ KeptEdges # {}

\* C4: with the retained nodes indexed in ascending id order, the cell
\* [i][j] of shortest_path_matrix is the hop count of a shortest directed
\* path from node i to node j, 0 on the diagonal, and None exactly when no
\* directed path leads from i to j.
C4_ShortestPathMatrix ==
    Measured =>
        LET M == graph_metrics.shortest_path_matrix
            H == KeptHops
            L == KeptList
        IN /\ DOMAIN M = DOMAIN L
           /\ \A i \in DOMAIN L :
                /\ DOMAIN M[i] = DOMAIN L
                /\ M[i][i] = Num(0)
                /\ \A j \in DOMAIN L :
                     IF H[L[i]][L[j]] >= 0
                     THEN M[i][j] = Num(H[L[i]][L[j]])
                     ELSE M[i][j] = None

\* a measured graph where one pair is two hops apart and the reverse pair
\* is unreachable
C4_Witness ==
    /\ Measured
    /\ \E i, j \in DOMAIN KeptList :
         /\ KeptHops[KeptList[i]][KeptList[j]] = 2
         /\ KeptHops[KeptList[j]][KeptList[i]] = -1
         /\ graph_metrics.shortest_path_matrix[i][j] = Num(2)
         /\ graph_metrics.shortest_path_matrix[j][i] = None

\* the degree of v in the undirected projection of the retained edges:
\* a neighbour counts once however many directed edges join it to v, a
\* self loop counts twice
UndirectedDegree(N, E, v) ==
    Cardinality({u \in N \ {v} : <<u, v>> \in E \/ <<v, u>> \in E})
    + (IF <<v, v>> \in E THEN 2 ELSE 0)
InDegree(E, v) == Cardinality({e \in E : e[2] = v})
OutDegree(E, v) == Cardinality({e \in E : e[1] = v})

\* C5 as claimed: degree is the degree in the undirected projection, and
\* in_degree and out_degree count the incoming and outgoing retained edges.
C5_DegreeIsUndirected ==
    Measured =>
        LET N == KeptNodes
            E == KeptEdges
        IN \A v \in N :
               /\ graph_metrics.node_metrics[v].degree = UndirectedDegree(N, E, v)
               /\ graph_metrics.node_metrics[v].in_degree = InDegree(E, v)
               /\ graph_metrics.node_metrics[v].out_degree = OutDegree(E, v)

\* C5 as amended: in_degree and out_degree count the incoming and outgoing
\* retained edges of v and degree is their sum, so that two nodes joined in
\* both directions add two to each other's degree.
C5_DegreeIsInPlusOut ==
    Measured =>
        LET N == KeptNodes
            E == KeptEdges
        IN \A v \in N :
               /\ graph_metrics.node_metrics[v].in_degree = InDegree(E, v)
               /\ graph_metrics.node_metrics[v].out_degree = OutDegree(E, v)
               /\ graph_metrics.node_metrics[v].degree = InDegree(E, v) + OutDegree(E, v)

\* a measured graph with a pair joined in both directions
C5_Witness ==
    /\ Measured
    /\ \E u, v \in KeptNodes :
         /\ u # v /\ <<u, v>> \in KeptEdges /\ <<v, u>> \in KeptEdges
         /\ graph_metrics.node_metrics[v].degree > UndirectedDegree(KeptNodes, KeptEdges, v)

\* C6 as claimed: betweenness_centrality is the sum of the pair
\* dependencies, not divided by (n-1)(n-2).
C6_BetweennessUnnormalized ==
    Measured =>
        LET dep == KeptDependency
        IN \A v \in DOMAIN dep :
               graph_metrics.node_metrics[v].betweenness_centrality = dep[v]

\* C6 as amended: betweenness_centrality is the sum of the pair dependencies
\* divided by (n-1)(n-2), n the number of retained nodes, when n > 2, and
\* the sum itself (which is 0) when n <= 2.
C6_BetweennessNormalized ==
    Measured =>
        LET dep == KeptDependency
            n == Cardinality(DOMAIN dep)
        IN \A v \in DOMAIN dep :
               graph_metrics.node_metrics[v].betweenness_centrality =
                   IF n > 2 THEN RatDiv(dep[v], <<(n - 1) * (n - 2), 1>>) ELSE dep[v]

\* the path 1 -> 2 -> 3 measured: node 2 carries the one pair (1, 3)
C6_Witness ==
    /\ Measured
    /\ KeptNodes = {1, 2, 3} /\ KeptEdges = {<<1, 2>>, <<2, 3>>}
    /\ KeptDependency[2] = One
    /\ graph_metrics.node_metrics[2].betweenness_centrality = <<1, 2>>

\* the directed cycle 1 -> 2 -> 3 -> 1 over the three known nodes
IsCycle == KeptNodes = {1, 2, 3} /\ KeptEdges = {<<1, 2>>, <<2, 3>>, <<3, 1>>}

\* C7 as claimed: on the cycle every node has in_degree 1, out_degree 1,
\* degree 2 and clustering_coefficient 0, and avg_clustering is 0.
C7_CycleClusteringZero ==
    (pc = "measured" /\ IsCycle) =>
        /\ \A v \in {1, 2, 3} :
             /\ graph_metrics.node_metrics[v].in_degree = 1
             /\ graph_metrics.node_metrics[v].out_degree = 1
             /\ graph_metrics.node_metrics[v].degree = 2
             /\ graph_metrics.node_metrics[v].clustering_coefficient = Zero
        /\ graph_metrics.avg_clustering = Zero

\* C7 as amended: on the cycle every node has in_degree 1, out_degree 1,
\* degree 2 and clustering_coefficient 1 (the undirected projection is a
\* triangle), and avg_clustering is 1.
C7_CycleClusteringOne ==
    (pc = "measured" /\ IsCycle) =>
        /\ \A v \in {1, 2, 3} :
             /\ graph_metrics.node_metrics[v].in_degree = 1
             /\ graph_metrics.node_metrics[v].out_degree = 1
             /\ graph_metrics.node_metrics[v].degree = 2
             /\ graph_metrics.node_metrics[v].clustering_coefficient = One
        /\ graph_metrics.avg_clustering = One

\* the cycle measured
C7_Witness == pc = "measured" /\ IsCycle /\ graph_metrics.num_edges = 3

====
